---- MODULE Spec2Model ----
(***************************************************************************)
(* Guardrailed execution engine of algo_predictions (src/src/trade.py):    *)
(* execute_edge_trades turns an edge list into exchange orders under a     *)
(* spend cap, a per-order size cap, an interactive confirmation gate and   *)
(* a ledger of (ticker, side) keys already traded.                         *)
(*                                                                         *)
(* Money is in integer cents and counts are integers, as in the code.      *)
(* The ledger file is the sequence of its CSV rows, header row first; the  *)
(* timestamp, count, order_type and price columns are written but never    *)
(* read back by the program and are left out of the rows.                  *)
(*                                                                         *)
(* Further down: cmd_manual (SpecManual), two engine processes on one      *)
(* ledger (SpecOverlap), the edge scan find_edges with cmd_auto around it  *)
(* (SpecAuto), refresh_data with failing fetches (SpecRefresh), one run    *)
(* under two fee coefficients (SpecFees), a run interrupted between        *)
(* place_order and log_trade (SpecCrash), counts of any sign               *)
(* (SpecAnyCount), cmd_manual followed by auto runs (SpecManualAuto), and  *)
(* the first find_edges of src/trade.py beside the present one             *)
(* (SpecLegacy).                                                           *)
(***************************************************************************)
EXTENDS Integers, Sequences, FiniteSets, TLC

VARIABLES
    ledger,        \* data/trades_log.csv: <<>> when absent, else header + rows
    pc,            \* "idle" | "loop" | "accepted" | "done" (totals printed) | "raised"
    runNo,         \* number of execute_edge_trades runs started so far
    edges,         \* edges_df of the current run, in row order
    idx,           \* 1-based position of the loop in edges
    count,         \* --count
    max_contracts, \* --max-contracts
    max_spend,     \* --max-spend
    dry_run,       \* --dry-run
    skip_confirm,  \* --yes
    traded_keys,   \* local set of (ticker, side)
    total_spend,   \* local
    total_fees,    \* local
    skipped,       \* local
    response,      \* local: what input() last returned in this run
    asked,         \* history: position of the edge input() was last called for
    trace,         \* history: one record per edge the current run processed
    ledger0,       \* history: the ledger as it was when the current run began
    other,         \* the locals of a second, overlapping run while it is not running
    manual,        \* the cmd_manual invocation in progress, or its outcome
    csv,           \* data/kalshi_nba.csv, draftkings_nba.csv, pinnacle_nba.csv
    auto,          \* the cmd_auto invocation in progress up to execute_edge_trades
    fee,           \* TAKER_FEE_COEFF, in percent
    exchange       \* the exchange: (action, ticker, side) of the orders it accepted

vars == <<ledger, pc, runNo, edges, idx, count, max_contracts, max_spend,
          dry_run, skip_confirm, traded_keys, total_spend, total_fees,
          skipped, response, asked, trace, ledger0, other, manual, csv, auto,
          fee, exchange>>

\* what execute_edge_trades never touches
others == <<other, manual, csv, auto, fee>>

runParams == <<edges, count, max_contracts, max_spend, dry_run, skip_confirm>>

----------------------------------------------------------------------------
(* Bounds of the model *)

MaxEdges == 2
MaxPrice == 2
MaxCount == 2
MaxSpend == 3
MaxRuns == 2
TwiceEdges == 3

(* Program constants *)

TakerFeePercent == 7
DefaultMaxContracts == 20

\* (ticker, side) pairs of the edges: the two sides of one market, and a
\* second market
OneMarket == {<<"T1", "yes">>, <<"T1", "no">>}
Markets == OneMarket \cup {<<"T2", "yes">>}
Responses == {"y", "Y", "n", ""}
NoResponse == "-"

SeqsUpTo(S, n) == UNION {[1..k -> S] : k \in 0..n}

EdgesOver(markets, prices) ==
    {[ticker |-> m[1], side |-> m[2], kalshi_price |-> p] : m \in markets, p \in prices}

Inputs(lists, counts, caps, spends, dry, skip) ==
    [edges : lists, count : counts, max_contracts : caps,
     max_spend : spends, dry_run : dry, skip_confirm : skip]

(* Inputs that exercise the budget: prices, counts, caps and budgets vary. *)
BudgetInputs ==
    Inputs(SeqsUpTo(EdgesOver(OneMarket, 1..MaxPrice), MaxEdges),
           1..MaxCount, 1..MaxCount, 0..MaxSpend, BOOLEAN, BOOLEAN)

(* Inputs that exercise the keys: one contract at one cent on any market. *)
KeyInputs ==
    Inputs(SeqsUpTo(EdgesOver(Markets, {1}), MaxEdges),
           {1}, {1}, 0..MaxSpend, BOOLEAN, BOOLEAN)

(* The budget-clamp example: max_spend 1000, price 60, count 10. *)
ScenarioInputs ==
    Inputs(SeqsUpTo(EdgesOver(Markets, {60}), MaxEdges + 1),
           {10}, {10, DefaultMaxContracts}, {1000}, BOOLEAN, BOOLEAN)

RunInputs == BudgetInputs \cup KeyInputs \cup ScenarioInputs

(* Inputs of a live run with confirmation skipped, every order accepted,  *)
(* which is then repeated.                                                 *)
TwiceInputs ==
    Inputs(SeqsUpTo(EdgesOver(Markets, 1..MaxPrice), TwiceEdges),
           1..MaxCount, 1..MaxCount, 0..MaxSpend, {FALSE}, {TRUE})

----------------------------------------------------------------------------
(* Pure helpers of src/src/trade.py *)

Min(a, b) == IF a <= b THEN a ELSE b

\* math.ceil(n / d) for d > 0
CeilDiv(n, d) == 0 - ((0 - n) \div d)

\* estimate_fee: ceil(coeff * count * P * (1 - P)), P = price_cents / 100
estimate_fee(price_cents, n) ==
    CeilDiv(fee * n * price_cents * (100 - price_cents), 1000000)

\* Side.YES if edge["side"] == "yes" else Side.NO, then side.value
SideValue(s) == IF s = "yes" THEN "yes" ELSE "no"

\* key = (edge["ticker"], edge["side"])
Key(e) == <<e.ticker, e.side>>

HeaderRow == [kind |-> "header"]

DataRows(l) == IF l = <<>> THEN <<>> ELSE SubSeq(l, 2, Len(l))

RowKeys(l) == {<<DataRows(l)[i].ticker, DataRows(l)[i].side>> : i \in 1..Len(DataRows(l))}

\* load_traded_keys
load_traded_keys_empty(l) == {}
load_traded_keys(l) == IF l = <<>> THEN {} ELSE RowKeys(l)

\* log_trade
log_trade_alwaysHeader(l, ticker, side, n, price) ==
    l \o <<HeaderRow, [kind |-> "row", ticker |-> ticker, action |-> "buy", side |-> side]>>
log_trade(l, ticker, side, n, price) ==
    LET row == [kind |-> "row", ticker |-> ticker, action |-> "buy", side |-> side]
    IN  IF l = <<>> THEN <<HeaderRow, row>> ELSE Append(l, row)

\* order_count = min(count, max_contracts)
RequestedCount_uncapped(c, cap) == c
RequestedCount(c, cap) == Min(c, cap)

\* if total_spend + cost > max_spend
OverBudget_ignoresSpent(spent, cost, budget) == cost > budget
OverBudget(spent, cost, budget) == spent + cost > budget

\* order_count = remaining // price
ClampedCount_roundsUp(remaining, price) == CeilDiv(remaining, price)
ClampedCount(remaining, price) == remaining \div price

\* str.lower() on the strings of the model
Lower(r) ==
    CASE r = "Y" -> "y"
      [] r = "J. Doe" -> "j. doe"
      [] r = "A. Roe" -> "a. roe"
      [] r = "Points" -> "points"
      [] r = "Rebounds" -> "rebounds"
      [] OTHER -> r

\* not (response.lower() != "y")
Affirmative_defaultYes(r) == Lower(r) # "n"
Affirmative(r) == Lower(r) = "y"

----------------------------------------------------------------------------
(* The current iteration of the loop in execute_edge_trades *)

AtEdge == pc = "loop" /\ idx <= Len(edges)
edge == edges[idx]
\* price = int(edge["kalshi_price"]): the asks are whole cents, which int() keeps
price == edge.kalshi_price
FullCount == RequestedCount(count, max_contracts)
Clamping_countsFees == OverBudget(total_spend + total_fees, price * FullCount, max_spend)
Clamping == OverBudget(total_spend, price * FullCount, max_spend)
order_count ==
    IF Clamping THEN ClampedCount(max_spend - total_spend, price) ELSE FullCount

Processed(outcome, n) ==
    trace' = Append(trace, [outcome |-> outcome, count |-> n])

\* response = input("Place this order? [y/N] "), when the run prompts at all
Prompt(answers) ==
    IF skip_confirm \/ dry_run
    THEN UNCHANGED <<response, asked>>
    ELSE /\ response' \in answers
         /\ asked' = idx

NoPrompt == UNCHANGED <<response, asked>>

----------------------------------------------------------------------------
\* no second run, no cmd_manual and no cmd_auto in progress; no data file yet
NoRun ==
    [pc |-> "idle", edges |-> <<>>, idx |-> 1, count |-> 1, max_contracts |-> 1,
     max_spend |-> 0, dry_run |-> FALSE, skip_confirm |-> FALSE,
     traded_keys |-> {}, total_spend |-> 0, total_fees |-> 0, skipped |-> 0,
     response |-> NoResponse, asked |-> 0, trace |-> <<>>, ledger0 |-> <<>>,
     fee |-> TakerFeePercent]
NoManual == [stage |-> "none"]
NoFiles == [kalshi |-> <<>>, dk |-> <<>>, pinn |-> <<>>]
NoAuto == [stage |-> "none", n |-> 0]

Init ==
    /\ ledger = <<>>
    /\ pc = "idle"
    /\ runNo = 0
    /\ edges = <<>>
    /\ idx = 1
    /\ count = 1
    /\ max_contracts = 1
    /\ max_spend = 0
    /\ dry_run = FALSE
    /\ skip_confirm = FALSE
    /\ traded_keys = {}
    /\ total_spend = 0
    /\ total_fees = 0
    /\ skipped = 0
    /\ response = NoResponse
    /\ asked = 0
    /\ trace = <<>>
    /\ ledger0 = <<>>
    /\ other = NoRun
    /\ manual = NoManual
    /\ csv = NoFiles
    /\ auto = NoAuto
    /\ fee = TakerFeePercent
    /\ exchange = {}

\* execute_edge_trades is entered: lines 262-265
Begin(in) ==
    /\ runNo' = runNo + 1
    /\ edges' = in.edges
    /\ count' = in.count
    /\ max_contracts' = in.max_contracts
    /\ max_spend' = in.max_spend
    /\ dry_run' = in.dry_run
    /\ skip_confirm' = in.skip_confirm
    /\ traded_keys' = load_traded_keys(ledger)
    /\ total_spend' = 0
    /\ total_fees' = 0
    /\ skipped' = 0
    /\ response' = NoResponse
    /\ asked' = 0
    /\ idx' = 1
    /\ pc' = "loop"
    /\ trace' = <<>>
    /\ ledger0' = ledger
    /\ UNCHANGED ledger

StartRun ==
    /\ pc = "idle"
    /\ runNo < MaxRuns
    /\ \E in \in RunInputs : Begin(in)
    /\ UNCHANGED <<others, exchange>>

\* if key in traded_keys: skipped += 1; continue
SkipTraded_uncounted ==
    /\ AtEdge
    /\ Key(edge) \in traded_keys
    /\ idx' = idx + 1
    /\ Processed("skipped", 0)
    /\ NoPrompt
    /\ UNCHANGED <<ledger, pc, runNo, runParams, traded_keys, total_spend,
                   total_fees, skipped, ledger0>>
    /\ UNCHANGED <<others, exchange>>

SkipTraded ==
    /\ AtEdge
    /\ Key(edge) \in traded_keys
    /\ skipped' = skipped + 1
    /\ idx' = idx + 1
    /\ Processed("skipped", 0)
    /\ NoPrompt
    /\ UNCHANGED <<ledger, pc, runNo, runParams, traded_keys, total_spend,
                   total_fees, ledger0>>
    /\ UNCHANGED <<others, exchange>>

\* if order_count <= 0: print("Max spend reached"); break; then the totals
BudgetStop_continues ==
    /\ AtEdge
    /\ Key(edge) \notin traded_keys
    /\ Clamping
    /\ order_count <= 0
    /\ idx' = idx + 1
    /\ Processed("stopped", 0)
    /\ NoPrompt
    /\ UNCHANGED <<ledger, pc, runNo, runParams, traded_keys, total_spend,
                   total_fees, skipped, ledger0>>
    /\ UNCHANGED <<others, exchange>>

BudgetStop ==
    /\ AtEdge
    /\ Key(edge) \notin traded_keys
    /\ Clamping
    /\ order_count <= 0
    /\ pc' = "done"
    /\ Processed("stopped", 0)
    /\ NoPrompt
    /\ UNCHANGED <<ledger, runNo, runParams, idx, traded_keys, total_spend,
                   total_fees, skipped, ledger0>>
    /\ UNCHANGED <<others, exchange>>

Affordable == AtEdge /\ Key(edge) \notin traded_keys /\ ~(Clamping /\ order_count <= 0)

Prompted == ~skip_confirm /\ ~dry_run

\* response = input(...); if response.lower() != "y": continue
Decline_stops ==
    /\ Affordable
    /\ Prompted
    /\ Prompt({r \in Responses : ~Affirmative(r)})
    /\ Processed("declined", 0)
    /\ pc' = "done"
    /\ UNCHANGED <<ledger, runNo, runParams, idx, traded_keys, total_spend,
                   total_fees, skipped, ledger0>>
    /\ UNCHANGED <<others, exchange>>

Decline ==
    /\ Affordable
    /\ Prompted
    /\ Prompt({r \in Responses : ~Affirmative(r)})
    /\ Processed("declined", 0)
    /\ idx' = idx + 1
    /\ UNCHANGED <<ledger, pc, runNo, runParams, traded_keys, total_spend,
                   total_fees, skipped, ledger0>>
    /\ UNCHANGED <<others, exchange>>

\* place_trade with dry_run returns None: spend and fees accumulate, no log
DryRunOrder_logs ==
    /\ Affordable
    /\ dry_run
    /\ total_spend' = total_spend + price * order_count
    /\ total_fees' = total_fees + estimate_fee(price, order_count)
    /\ idx' = idx + 1
    /\ Processed("dry", order_count)
    /\ NoPrompt
    /\ ledger' = log_trade(ledger, edge.ticker, SideValue(edge.side), order_count, price)
    /\ traded_keys' = traded_keys \cup {Key(edge)}
    /\ UNCHANGED <<pc, runNo, runParams, skipped, ledger0>>
    /\ UNCHANGED <<others, exchange>>

DryRunOrder ==
    /\ Affordable
    /\ dry_run
    /\ total_spend' = total_spend + price * order_count
    /\ total_fees' = total_fees + estimate_fee(price, order_count)
    /\ idx' = idx + 1
    /\ Processed("dry", order_count)
    /\ NoPrompt
    /\ UNCHANGED <<ledger, pc, runNo, runParams, traded_keys, skipped,
                   ledger0>>
    /\ UNCHANGED <<others, exchange>>

\* place_order returns an order: lines 294-300
PlaceOrder ==
    /\ Affordable
    /\ ~dry_run
    /\ Prompt({r \in Responses : Affirmative(r)})
    /\ Processed("placed", order_count)
    /\ total_spend' = total_spend + price * order_count
    /\ total_fees' = total_fees + estimate_fee(price, order_count)
    /\ ledger' = log_trade(ledger, edge.ticker, SideValue(edge.side), order_count, price)
    /\ traded_keys' = traded_keys \cup {Key(edge)}
    /\ idx' = idx + 1
    /\ exchange' = exchange \cup {<<"buy", edge.ticker, SideValue(edge.side)>>}
    /\ UNCHANGED <<pc, runNo, runParams, skipped, ledger0>>
    /\ UNCHANGED others

\* place_order raises: nothing catches it, the run ends in a traceback
PlaceOrderFails_logs ==
    /\ Affordable
    /\ ~dry_run
    /\ Prompt({r \in Responses : Affirmative(r)})
    /\ Processed("failed", order_count)
    /\ ledger' = log_trade(ledger, edge.ticker, SideValue(edge.side), order_count, price)
    /\ pc' = "raised"
    /\ UNCHANGED <<runNo, runParams, idx, traded_keys, total_spend,
                   total_fees, skipped, ledger0>>
    /\ UNCHANGED <<others, exchange>>

PlaceOrderFails ==
    /\ Affordable
    /\ ~dry_run
    /\ Prompt({r \in Responses : Affirmative(r)})
    /\ Processed("failed", order_count)
    /\ pc' = "raised"
    /\ UNCHANGED <<ledger, runNo, runParams, idx, traded_keys, total_spend,
                   total_fees, skipped, ledger0>>
    /\ UNCHANGED <<others, exchange>>

\* the loop is exhausted: lines 302-306 print the totals
Finish ==
    /\ pc = "loop"
    /\ idx > Len(edges)
    /\ pc' = "done"
    /\ UNCHANGED <<ledger, runNo, runParams, idx, traded_keys, total_spend,
                   total_fees, skipped, response, asked, trace, ledger0>>
    /\ UNCHANGED <<others, exchange>>

\* the process ends (after the totals, or with the traceback): locals are gone
Exit ==
    /\ pc \in {"done", "raised"}
    /\ pc' = "idle"
    /\ edges' = <<>>
    /\ idx' = 1
    /\ count' = 1
    /\ max_contracts' = 1
    /\ max_spend' = 0
    /\ dry_run' = FALSE
    /\ skip_confirm' = FALSE
    /\ traded_keys' = {}
    /\ total_spend' = 0
    /\ total_fees' = 0
    /\ skipped' = 0
    /\ response' = NoResponse
    /\ asked' = 0
    /\ trace' = <<>>
    /\ ledger0' = <<>>
    /\ UNCHANGED <<ledger, runNo>>
    /\ UNCHANGED <<others, exchange>>

Next ==
    \/ StartRun
    \/ SkipTraded
    \/ BudgetStop
    \/ Decline
    \/ DryRunOrder
    \/ PlaceOrder
    \/ PlaceOrderFails
    \/ Finish
    \/ Exit

Spec == Init /\ [][Next]_vars

----------------------------------------------------------------------------
(* The same live run made twice in sequence: confirmation skipped, every   *)
(* submission accepted, the ledger absent before the first run.            *)

StartFirst ==
    /\ pc = "idle"
    /\ runNo = 0
    /\ \E in \in TwiceInputs : Begin(in)
    /\ UNCHANGED <<others, exchange>>

StartSecond ==
    /\ pc = "done"
    /\ runNo = 1
    /\ Begin([edges |-> edges, count |-> count, max_contracts |-> max_contracts,
              max_spend |-> max_spend, dry_run |-> dry_run,
              skip_confirm |-> skip_confirm])
    /\ UNCHANGED <<others, exchange>>

NextTwice ==
    \/ StartFirst
    \/ SkipTraded
    \/ BudgetStop
    \/ PlaceOrder
    \/ Finish
    \/ StartSecond

SpecTwice == Init /\ [][NextTwice]_vars

----------------------------------------------------------------------------
(* What the history of the current run says *)

Done(i) == i \in 1..Len(trace)
PriceAt(i) == edges[i].kalshi_price
KeyAt(i) == Key(edges[i])
IsOrder(i) == trace[i].outcome \in {"placed", "failed", "dry"}
IsSubmitted(i) == trace[i].outcome \in {"placed", "failed"}
LastOutcome == IF trace = <<>> THEN "none" ELSE trace[Len(trace)].outcome
Stepped(outcomes) ==
    /\ Len(trace') = Len(trace) + 1
    /\ trace'[Len(trace')].outcome \in outcomes

\* cents the run had spent (or would have, dry) before it reached edge i
RECURSIVE SpentBefore(_)
SpentBefore(i) ==
    IF i <= 1 THEN 0
    ELSE SpentBefore(i - 1) +
         (IF trace[i - 1].outcome \in {"placed", "dry"}
          THEN PriceAt(i - 1) * trace[i - 1].count ELSE 0)

\* price * order_count summed over the place_order calls among the first n edges
RECURSIVE SubmittedCost(_)
SubmittedCost(n) ==
    IF n = 0 THEN 0
    ELSE SubmittedCost(n - 1) + (IF IsSubmitted(n) THEN PriceAt(n) * trace[n].count ELSE 0)

OrdersBefore(i) == Cardinality({j \in 1..(i - 1) : IsOrder(j)})

----------------------------------------------------------------------------
\* C1: with max_spend >= 0 and every price >= 1, after any prefix of the edge
\* list total_spend <= max_spend, and the orders submitted in the run cost
\* at most max_spend in total.
C1_SpendCap ==
    (max_spend >= 0 /\ \A i \in 1..Len(edges) : PriceAt(i) >= 1)
        => /\ total_spend <= max_spend
           /\ SubmittedCost(Len(trace)) <= max_spend

\* a run that spent its whole budget, its last order clamped
C1_Witness ==
    /\ max_spend > 0
    /\ total_spend = max_spend
    /\ SubmittedCost(Len(trace)) = max_spend
    /\ \E i \in 1..Len(trace) :
          /\ trace[i].outcome = "placed"
          /\ trace[i].count < Min(count, max_contracts)

\* C2: over any sequence of runs sharing the ledger, no two ledger rows
\* (all BUY) have the same (ticker, side).
C2_LedgerUnique ==
    \A i, j \in 1..Len(DataRows(ledger)) :
        i # j => <<DataRows(ledger)[i].ticker, DataRows(ledger)[i].side>>
                 # <<DataRows(ledger)[j].ticker, DataRows(ledger)[j].side>>

\* a later run met a key an earlier run logged, and logged another itself
C2_Witness ==
    /\ runNo = 2
    /\ Len(ledger) > Len(ledger0)
    /\ \E i \in 1..Len(trace) :
          /\ trace[i].outcome = "skipped"
          /\ KeyAt(i) \in RowKeys(ledger0)

LoggedByFirst(i) == KeyAt(i) \in RowKeys(ledger0)
NoRepeatedKey == \A i, j \in 1..Len(edges) : i # j => KeyAt(i) # KeyAt(j)

C4_FailedStaysRetryable ==
    /\ [][Stepped({"failed"})
            => /\ ledger' = ledger
               /\ traded_keys' = traded_keys
               /\ KeyAt(idx) \notin traded_keys']_vars
    /\ [](pc = "raised" => KeyAt(idx) \notin RowKeys(ledger))

\* a submission failed in a later run, after other orders were logged
C4_Witness ==
    /\ pc = "raised"
    /\ LastOutcome = "failed"
    /\ runNo = 2
    /\ Len(ledger) > Len(ledger0)
    /\ Len(ledger0) >= 2

\* C5: when place_order fails for one edge the run goes on with the next
\* edge and still ends by reporting its totals.
C5_FailureIsCaught ==
    (\E i \in 1..Len(trace) : trace[i].outcome = "failed")
        => \/ pc = "loop" /\ idx > Len(trace)
           \/ pc = "done"

\* C6: at the first edge that is not already traded and whose clamped count
\* floor((max_spend - total_spend) / price) is <= 0 the run stops: nothing
\* is submitted for it, and no edge after it is processed in that run.
C6_BudgetStopTerminal ==
    /\ [][(/\ AtEdge
           /\ KeyAt(idx) \notin traded_keys
           /\ total_spend + PriceAt(idx) * Min(count, max_contracts) > max_spend
           /\ (max_spend - total_spend) \div PriceAt(idx) <= 0)
            => /\ pc' = "done"
               /\ Stepped({"stopped"})
               /\ ledger' = ledger
               /\ total_spend' = total_spend]_vars
    /\ [](\A i \in 1..Len(trace) :
             trace[i].outcome = "stopped" => (i = Len(trace) /\ pc = "done"))

\* the run stopped at an edge it could not afford, before an untraded edge
\* whose price fits what is left of the budget
C6_Witness ==
    /\ pc = "done"
    /\ LastOutcome = "stopped"
    /\ \E j \in (Len(trace) + 1)..Len(edges) :
          /\ KeyAt(j) \notin traded_keys
          /\ PriceAt(j) <= max_spend - total_spend

ScenarioRun ==
    /\ max_spend = 1000
    /\ count = 10
    /\ max_contracts >= 10
    /\ \A i \in 1..Len(edges) : PriceAt(i) = 60

\* C7: an order whose full cost price * min(count, max_contracts) would take
\* total_spend over max_spend is placed with the largest count whose cost
\* fits the remaining budget, any other order in full; with max_spend 1000,
\* price 60 and count 10 the first order is 10 contracts, the second 6
\* (total 960) and there is no third.
C7_BudgetClamp ==
    /\ \A i \in 1..Len(trace) :
          IsOrder(i) =>
             LET remaining == max_spend - SpentBefore(i)
                 full == Min(count, max_contracts)
                 n == trace[i].count
             IN  IF PriceAt(i) * full > remaining
                 THEN /\ n >= 1
                      /\ PriceAt(i) * n <= remaining
                      /\ PriceAt(i) * (n + 1) > remaining
                 ELSE n = full
    /\ ScenarioRun =>
          /\ \A i \in 1..Len(trace) :
                /\ (IsOrder(i) /\ OrdersBefore(i) = 0) => trace[i].count = 10
                /\ (IsOrder(i) /\ OrdersBefore(i) = 1) => trace[i].count = 6
                /\ OrdersBefore(i) >= 2 => trace[i].outcome \in {"skipped", "stopped"}
          /\ OrdersBefore(Len(trace) + 1) = 2 /\ LastOutcome # "failed"
                => total_spend = 960

\* the example run: 10 contracts, then 6, then the stop at a third edge
C7_Witness ==
    /\ ScenarioRun
    /\ pc = "done"
    /\ Len(trace) = 3
    /\ trace[1] = [outcome |-> "placed", count |-> 10]
    /\ trace[2] = [outcome |-> "placed", count |-> 6]
    /\ trace[3].outcome = "stopped"
    /\ total_spend = 960

\* C8: every order has order_count <= min(requested count, max_contracts).
C8_SizeCap ==
    \A i \in 1..Len(trace) :
        IsOrder(i) => (trace[i].count <= count /\ trace[i].count <= max_contracts)

\* two orders of one run held to max_contracts, below the requested count
C8_Witness ==
    /\ max_contracts < count
    /\ \E i, j \in 1..Len(trace) :
          /\ i < j
          /\ trace[i].outcome = "placed"
          /\ trace[i].count = max_contracts
          /\ trace[j].outcome = "placed"
          /\ trace[j].count = max_contracts

\* C9: with dry_run and skip_confirm both false, an order is submitted for
\* an edge only if input() was called for that edge and returned "y" or "Y".
C9_ConfirmationGate ==
    [][(Stepped({"placed", "failed"}) /\ ~dry_run /\ ~skip_confirm)
          => (asked' = idx /\ response' \in {"y", "Y"})]_vars

\* an order placed on an upper-case "Y", after an edge declined
C9_Witness ==
    /\ ~dry_run
    /\ ~skip_confirm
    /\ LastOutcome = "placed"
    /\ asked = Len(trace)
    /\ response = "Y"
    /\ \E i \in 1..Len(trace) : trace[i].outcome = "declined"

\* C10: declining an edge leaves total_spend, total_fees, traded_keys and the
\* ledger unchanged, and the loop goes on to the next edge.
C10_DeclineSkipsOneEdge ==
    [][Stepped({"declined"})
          => /\ total_spend' = total_spend
             /\ total_fees' = total_fees
             /\ traded_keys' = traded_keys
             /\ ledger' = ledger
             /\ pc' = "loop"
             /\ idx' = idx + 1]_vars

\* an edge declined on empty input and a later edge of the same run placed
C10_Witness ==
    \E i, j \in 1..Len(trace) :
        /\ i < j
        /\ trace[i].outcome = "declined"
        /\ trace[j].outcome = "placed"
        /\ total_spend > 0

----------------------------------------------------------------------------
(* cmd_manual: one order from the command line, lines 309-332              *)

ManualPrices == (1..MaxPrice) \cup {100 - p : p \in 1..MaxPrice}

ManualInputs ==
    [ticker : {"T1"}, action : {"buy", "sell"}, side : {"yes", "no"},
     count : 1..(MaxCount + 1),
     price : ManualPrices, max_contracts : 1..MaxCount,
     max_spend : 0..MaxSpend, yes : BOOLEAN, dry_run : BOOLEAN]

\* cost = price * count if action == Action.BUY else (100 - price) * count
ManualCost_buyOnly(action, p, n) == p * n

ManualCost(action, p, n) == IF action = "buy" THEN p * n ELSE (100 - p) * n

ManualRejected ==
    \/ manual.count > manual.max_contracts
    \/ ManualCost(manual.action, manual.price, manual.count) > manual.max_spend

ManualAsks == ~manual.yes /\ ~manual.dry_run

ManualFrame == UNCHANGED <<ledger, pc, runNo, runParams, idx, traded_keys,
                           total_spend, total_fees, skipped, response, asked,
                           trace, ledger0, other, csv, auto, fee>>

\* the process starts with its parsed arguments
ManualStart ==
    /\ manual.stage = "none"
    /\ pc = "idle"
    /\ \E in \in ManualInputs :
         manual' = [stage |-> "started", ticker |-> in.ticker,
                    action |-> in.action, side |-> in.side,
                    count |-> in.count, price |-> in.price,
                    max_contracts |-> in.max_contracts,
                    max_spend |-> in.max_spend, yes |-> in.yes,
                    dry_run |-> in.dry_run, client |-> FALSE,
                    submitted |-> <<>>, answer |-> NoResponse, exit |-> 0]
    /\ UNCHANGED exchange
    /\ ManualFrame

\* lines 315-317 and 320-322: print the violated limit, sys.exit(1)
ManualReject ==
    /\ manual.stage = "started"
    /\ ManualRejected
    /\ manual' = [manual EXCEPT !.stage = "exited", !.exit = 1]
    /\ UNCHANGED exchange
    /\ ManualFrame

\* lines 324-329: anything but y/Y prints "Cancelled." and returns
ManualCancel ==
    /\ manual.stage = "started"
    /\ ~ManualRejected
    /\ ManualAsks
    /\ \E r \in {r \in Responses : ~Affirmative(r)} :
         manual' = [manual EXCEPT !.stage = "exited", !.answer = r]
    /\ UNCHANGED exchange
    /\ ManualFrame

\* line 331 with dry_run: client = None, place_trade only prints
ManualDryRun ==
    /\ manual.stage = "started"
    /\ ~ManualRejected
    /\ manual.dry_run
    /\ manual' = [manual EXCEPT !.stage = "exited"]
    /\ UNCHANGED exchange
    /\ ManualFrame

ManualGo_logs(code) ==
    /\ manual.stage = "started"
    /\ ~ManualRejected
    /\ ~manual.dry_run
    /\ \E r \in (IF ManualAsks THEN {r \in Responses : Affirmative(r)} ELSE {NoResponse}) :
         manual' = [manual EXCEPT
                      !.stage = "exited", !.answer = r, !.client = TRUE,
                      !.submitted = <<[action |-> manual.action, side |-> manual.side,
                                       count |-> manual.count, price |-> manual.price]>>,
                      !.exit = code]
    /\ exchange' = IF code = 0
                   THEN exchange \cup {<<manual.action, manual.ticker, manual.side>>}
                   ELSE exchange
    /\ ledger' = IF code = 0
                 THEN log_trade(ledger, manual.ticker, manual.side, manual.count, manual.price)
                 ELSE ledger
    /\ UNCHANGED <<pc, runNo, runParams, idx, traded_keys, total_spend, total_fees,
                   skipped, response, asked, trace, ledger0, other, csv, auto, fee>>

ManualGo(code) ==
    /\ manual.stage = "started"
    /\ ~ManualRejected
    /\ ~manual.dry_run
    /\ \E r \in (IF ManualAsks THEN {r \in Responses : Affirmative(r)} ELSE {NoResponse}) :
         manual' = [manual EXCEPT
                      !.stage = "exited", !.answer = r, !.client = TRUE,
                      !.submitted = <<[action |-> manual.action, side |-> manual.side,
                                       count |-> manual.count, price |-> manual.price]>>,
                      !.exit = code]
    /\ exchange' = IF code = 0
                   THEN exchange \cup {<<manual.action, manual.ticker, manual.side>>}
                   ELSE exchange
    /\ ManualFrame

\* lines 331-332: get_client(), then place_trade submits the order
ManualOrder == ManualGo(0)

\* client.place_order raises: the order was submitted and refused
ManualOrderFails == ManualGo(1)

\* the process is gone
ManualExit ==
    /\ manual.stage = "exited"
    /\ manual' = NoManual
    /\ UNCHANGED exchange
    /\ ManualFrame

NextManual ==
    \/ ManualStart
    \/ ManualReject
    \/ ManualCancel
    \/ ManualDryRun
    \/ ManualOrder
    \/ ManualOrderFails
    \/ ManualExit

SpecManual == Init /\ [][NextManual]_vars

ManualOver ==
    \/ manual.count > manual.max_contracts
    \/ manual.action = "buy" /\ manual.price * manual.count > manual.max_spend
    \/ manual.action = "sell" /\ (100 - manual.price) * manual.count > manual.max_spend

\* C11: a cmd_manual invocation whose count exceeds max_contracts, or whose
\* estimated cost (price * count for BUY, (100 - price) * count for SELL)
\* exceeds max_spend, can only end with exit status 1, without a client,
\* without a submitted order and with the ledger and the data files as they
\* were; every order cmd_manual submits is within both limits.
C11_ManualGuardrails ==
    /\ [][manual.stage = "started" /\ ManualOver
            => /\ manual'.stage = "exited"
               /\ manual'.exit = 1
               /\ ~manual'.client
               /\ manual'.submitted = <<>>
               /\ ledger' = ledger
               /\ csv' = csv]_vars
    /\ [](manual.stage = "exited" /\ manual.submitted # <<>> => ~ManualOver)

\* a SELL whose price * count is within max_spend and whose
\* (100 - price) * count is not has been rejected
C11_Witness ==
    /\ manual.stage = "exited"
    /\ manual.exit = 1
    /\ manual.submitted = <<>>
    /\ manual.action = "sell"
    /\ manual.count <= manual.max_contracts
    /\ manual.price * manual.count <= manual.max_spend
    /\ (100 - manual.price) * manual.count > manual.max_spend

----------------------------------------------------------------------------
(* Two execute_edge_trades processes on the same ledger file. The code     *)
(* takes no lock: each process reads the ledger once, on entry, and        *)
(* appends to it after each accepted order, so the steps of the two        *)
(* processes interleave freely. The process that is not running keeps its  *)
(* locals in other.                                                        *)

Locals ==
    [pc |-> pc, edges |-> edges, idx |-> idx, count |-> count,
     max_contracts |-> max_contracts, max_spend |-> max_spend,
     dry_run |-> dry_run, skip_confirm |-> skip_confirm,
     traded_keys |-> traded_keys, total_spend |-> total_spend,
     total_fees |-> total_fees, skipped |-> skipped, response |-> response,
     asked |-> asked, trace |-> trace, ledger0 |-> ledger0, fee |-> fee]

OverlapInputs ==
    Inputs(SeqsUpTo(EdgesOver(Markets, {1}), MaxEdges),
           {1}, {1}, {1, MaxSpend}, {FALSE}, {TRUE})

StartOverlap ==
    /\ pc = "idle"
    /\ runNo < MaxRuns
    /\ \E in \in OverlapInputs : Begin(in)
    /\ UNCHANGED <<others, exchange>>

\* the scheduler runs the other process
Switch ==
    /\ other' = Locals
    /\ pc' = other.pc
    /\ edges' = other.edges
    /\ idx' = other.idx
    /\ count' = other.count
    /\ max_contracts' = other.max_contracts
    /\ max_spend' = other.max_spend
    /\ dry_run' = other.dry_run
    /\ skip_confirm' = other.skip_confirm
    /\ traded_keys' = other.traded_keys
    /\ total_spend' = other.total_spend
    /\ total_fees' = other.total_fees
    /\ skipped' = other.skipped
    /\ response' = other.response
    /\ asked' = other.asked
    /\ trace' = other.trace
    /\ ledger0' = other.ledger0
    /\ fee' = other.fee
    /\ UNCHANGED <<ledger, runNo, manual, csv, auto, exchange>>

NextOverlap ==
    \/ StartOverlap
    \/ Switch
    \/ SkipTraded
    \/ BudgetStop
    \/ PlaceOrder
    \/ Finish
    \/ Exit

SpecOverlap == Init /\ [][NextOverlap]_vars

SubmittedKeys(r) ==
    {Key(r.edges[i]) : i \in {i \in 1..Len(r.trace) : r.trace[i].outcome \in {"placed", "failed"}}}

\* C12: of two runs that overlap in time on one ledger, at most one submits
\* an order for a given (ticker, side), and the ledger never holds two
\* entries for one.
C12_OverlapExclusive ==
    /\ SubmittedKeys(Locals) \cap SubmittedKeys(other) = {}
    /\ Cardinality(RowKeys(ledger)) = Len(DataRows(ledger))

----------------------------------------------------------------------------
(* The edge scan of src/src/trade.py: find_edges and its helpers.          *)
(*                                                                         *)
(* A CSV cell that may be empty holds NaN or Num(v). Decimal odds are in   *)
(* ten-thousandths (2.0 is 20000), sportsbook lines in half points         *)
(* (34.5 is 69), prices in cents, edges in tenths of a cent.  Floats of    *)
(* the code are exact fractions <<numerator, denominator>> here.           *)
(* A market title is [kind |-> "prop", player, threshold] for a text of    *)
(* the form "<player>: <threshold>+ <word>" and [kind |-> "other"] for a   *)
(* text the regular expression of parse_kalshi_title does not match.       *)
(* A ticker <<series, id>> is the text "<series>-<id>".                    *)

NaN == <<>>
Num(v) == <<v>>
IsNa(c) == c = <<>>
Val(c) == c[1]
None == <<>>
Some(x) == <<x>>

Abs(n) == IF n < 0 THEN 0 - n ELSE n

RECURSIVE GCD(_, _)
GCD(a, b) == IF b = 0 THEN a ELSE GCD(b, a % b)

Frac(n, d) ==
    LET s == IF d < 0 THEN 0 - 1 ELSE 1
        g == GCD(Abs(n), Abs(d))
    IN  <<(s * n) \div g, (s * d) \div g>>
FAdd(x, y) == Frac(x[1] * y[2] + y[1] * x[2], x[2] * y[2])
FSub(x, y) == Frac(x[1] * y[2] - y[1] * x[2], x[2] * y[2])
FMul(x, y) == Frac(x[1] * y[1], x[2] * y[2])
FDiv(x, y) == Frac(x[1] * y[2], x[2] * y[1])
FInt(n) == <<n, 1>>

\* the integer nearest to n / d (d > 0), a tie going to the even one
RoundHalfEven(n, d) ==
    LET q == n \div d
        r == n % d
    IN  IF 2 * r < d THEN q
        ELSE IF 2 * r > d THEN q + 1
        ELSE IF q % 2 = 0 THEN q ELSE q + 1

\* round(x, 1), in tenths
Round1_truncates(x) == (10 * x[1]) \div x[2]
Round1(x) == RoundHalfEven(10 * x[1], x[2])

\* common.py SERIES_TO_STAT.get(series)
SERIES_TO_STAT(series) ==
    CASE series = "KXNBAPTS" -> Some("Points")
      [] series = "KXNBAREB" -> Some("Rebounds")
      [] series = "KXNBAAST" -> Some("Assists")
      [] series = "KXNBA3PT" -> Some("3-Pointers Made")
      [] series = "KXNBASTL" -> Some("Steals")
      [] series = "KXNBABLK" -> Some("Blocks")
      [] OTHER -> None

\* common.py parse_kalshi_title
parse_kalshi_title(title) ==
    IF title.kind = "prop"
    THEN [player |-> Some(title.player), threshold |-> Some(title.threshold)]
    ELSE [player |-> None, threshold |-> None]

_parse_kalshi_market_zeroAsk(row) ==
    LET parsed == parse_kalshi_title(row.title)
        series == IF row.series_ticker = "" THEN row.ticker[1] ELSE row.series_ticker
        stat_name == SERIES_TO_STAT(series)
    IN  IF parsed.player = None THEN None
        ELSE IF stat_name = None THEN None
        ELSE IF IsNa(row.yes_ask) \/ IsNa(row.no_ask)
        THEN None
        ELSE Some([ticker |-> row.ticker, player |-> Val(parsed.player),
                   stat |-> Val(stat_name), threshold |-> Val(parsed.threshold),
                   yes_ask |-> Val(row.yes_ask), no_ask |-> Val(row.no_ask)])

_parse_kalshi_market(row) ==
    LET parsed == parse_kalshi_title(row.title)
        series == IF row.series_ticker = "" THEN row.ticker[1] ELSE row.series_ticker
        stat_name == SERIES_TO_STAT(series)
    IN  IF parsed.player = None THEN None
        ELSE IF stat_name = None THEN None
        ELSE IF IsNa(row.yes_ask) \/ IsNa(row.no_ask)
                \/ Val(row.yes_ask) = 0 \/ Val(row.no_ask) = 0
        THEN None
        ELSE Some([ticker |-> row.ticker, player |-> Val(parsed.player),
                   stat |-> Val(stat_name), threshold |-> Val(parsed.threshold),
                   yes_ask |-> Val(row.yes_ask), no_ask |-> Val(row.no_ask)])

Choices == <<"over", "under">>

ValidOdds(c) == ~(IsNa(c) \/ Val(c) <= 0)

RowsOf(matches, choice) == SelectSeq(matches, LAMBDA r : r.choice = choice)

\* (1.0 / odds / overround) * 100
Normalized(odds, overround) == FMul(FDiv(FDiv(FInt(1), FInt(odds)), overround), FInt(100))

\* _compute_vig_free_implied: None, or the dict as a function on its keys
_compute_vig_free_implied(matches) ==
    LET over_row == RowsOf(matches, "over")
        under_row == RowsOf(matches, "under")
    IN  IF over_row = <<>> \/ under_row = <<>> THEN None
        ELSE
          LET over_odds == over_row[1].odds_decimal
              under_odds == under_row[1].odds_decimal
          IN  IF ~ValidOdds(over_odds) \/ ~ValidOdds(under_odds) THEN None
              ELSE
                LET overround == FAdd(FDiv(FInt(1), FInt(Val(over_odds))),
                                      FDiv(FInt(1), FInt(Val(under_odds))))
                    \* rows the loop does not skip, and the last of them per choice
                    kept == SelectSeq(matches, LAMBDA r : ValidOdds(r.odds_decimal))
                    last(c) == RowsOf(kept, c)[Len(RowsOf(kept, c))]
                IN  Some([c \in {r.choice : r \in {kept[i] : i \in 1..Len(kept)}} |->
                            Normalized(Val(last(c).odds_decimal), overround)])

\* book_threshold = market["threshold"] - 0.5, in half points
book_threshold_same(threshold) == 2 * threshold
book_threshold(threshold) == 2 * threshold - 1

Matches(market, df) ==
    SelectSeq(df, LAMBDA r :
        /\ Lower(r.full_name) = Lower(market.player)
        /\ Lower(r.stat_name) = Lower(market.stat)
        /\ r.stat_value = book_threshold(market.threshold))

\* _lookup_book_implied: the dict label -> implied, as a function on its keys
_lookup_book_implied(market, book_dfs) ==
    LET implied(i) == _compute_vig_free_implied(Matches(market, book_dfs[i][2]))
        hits == {i \in 1..Len(book_dfs) : implied(i) # None}
    IN  [label \in {book_dfs[i][1] : i \in hits} |->
            Val(implied(CHOOSE i \in hits : book_dfs[i][1] = label))]

RECURSIVE FSum(_, _)
FSum(f, S) ==
    IF S = {} THEN FInt(0)
    ELSE LET x == CHOOSE x \in S : TRUE IN FAdd(f[x], FSum(f, S \ {x}))

\* one pass of the loop of _compute_edge: <<>> or the one edge of the choice
EdgeOf(market, book_implied, choice) ==
    LET labels == {l \in DOMAIN book_implied : choice \in DOMAIN book_implied[l]}
        implieds == [l \in labels |-> book_implied[l][choice]]
    IN  IF labels = {} THEN <<>>
        ELSE
          LET avg_implied == FDiv(FSum(implieds, labels), FInt(Cardinality(labels)))
              kalshi_price == IF choice = "over" THEN market.yes_ask ELSE market.no_ask
              edge_val == FSub(avg_implied, FInt(kalshi_price))
          IN  <<[ticker |-> market.ticker, player |-> market.player,
                 stat |-> market.stat, threshold |-> market.threshold,
                 choice |-> choice,
                 side |-> IF choice = "over" THEN "yes" ELSE "no",
                 kalshi_price |-> kalshi_price,
                 edge |-> Round1(edge_val)]>>

\* _compute_edge; the implied-probability display columns are left out
_compute_edge(market, book_implied) ==
    EdgeOf(market, book_implied, Choices[1]) \o EdgeOf(market, book_implied, Choices[2])

\* if edge["edge"] >= min_edge (min_edge in cents, edge in tenths)
MeetsMinEdge_strict(e, min_edge) == e.edge > 10 * min_edge
MeetsMinEdge(e, min_edge) == e.edge >= 10 * min_edge

\* the body of the loop of find_edges for one exchange row
RowEdges(row, book_dfs, min_edge) ==
    LET market == _parse_kalshi_market(row)
    IN  IF market = None THEN <<>>
        ELSE
          LET book_implied == _lookup_book_implied(Val(market), book_dfs)
          IN  IF DOMAIN book_implied = {} THEN <<>>
              ELSE SelectSeq(_compute_edge(Val(market), book_implied),
                             LAMBDA e : MeetsMinEdge(e, min_edge))

\* the list find_edges has built when its loop ends
RECURSIVE Collected(_, _, _)
Collected(kalshi_df, book_dfs, min_edge) ==
    IF kalshi_df = <<>> THEN <<>>
    ELSE Collected(SubSeq(kalshi_df, 1, Len(kalshi_df) - 1), book_dfs, min_edge)
         \o RowEdges(kalshi_df[Len(kalshi_df)], book_dfs, min_edge)

Descending(s) == \A i \in 1..(Len(s) - 1) : s[i].edge >= s[i + 1].edge

\* edges_df.sort_values("edge", ascending=False).reset_index(drop=True):
\* the sort is pandas' default kind, which does not promise to keep equal
\* keys in their order, so every descending arrangement is a possible result
sort_values_asBuilt(s) == {s}
sort_values(s) ==
    {[i \in 1..Len(s) |-> s[p[i]]] :
        p \in {p \in Permutations(1..Len(s)) : Descending([i \in 1..Len(s) |-> s[p[i]]])}}

\* _load_book_df: the (label, table) pairs; read_csv raises on an absent file
Wanted(source) ==
    (IF source \in {"draftkings", "both"} THEN <<"dk">> ELSE <<>>)
    \o (IF source \in {"pinnacle", "both"} THEN <<"pinn">> ELSE <<>>)
FileOf(files, label) == IF label = "dk" THEN files.dk ELSE files.pinn
_load_book_df(files, source) ==
    [i \in 1..Len(Wanted(source)) |-> <<Wanted(source)[i], Val(FileOf(files, Wanted(source)[i]))>>]
Readable(files, source) ==
    /\ files.kalshi # None
    /\ \A i \in 1..Len(Wanted(source)) : FileOf(files, Wanted(source)[i]) # None

\* find_edges: the possible values of edges_df, the files being readable
find_edges(files, min_edge, source) ==
    sort_values(Collected(Val(files.kalshi), _load_book_df(files, source), min_edge))

----------------------------------------------------------------------------
(* refresh_data, lines 335-383, and the fetchers it calls.                 *)
(*                                                                         *)
(* What the outside world answers to one refresh is a record fetch:        *)
(*   kalshi  None when get_client or the market fetch raises, else         *)
(*           Some(table)                                                   *)
(*   pinn    [kind |-> "raises"] when pinnacle.fetch_matchups raises,      *)
(*           [kind |-> "nothing"] when no prop or no price came back       *)
(*           (fetch_all_prices swallows its own errors), else              *)
(*           [kind |-> "rows", rows |-> the merged props and prices]       *)
(*   dk      one entry per fetched DraftKings subcategory, None when       *)
(*           fetch_subcategory or parse_props raised, else Some(rows)      *)

\* pinnacle.py american_to_decimal on a cell; None is written as an empty cell
american_to_decimal_unsigned(american) ==
    IF IsNa(american) THEN NaN
    ELSE IF Val(american) >= 0 THEN Num(10000 + 100 * Val(american))
    ELSE Num(10000 + RoundHalfEven(1000000, Abs(Val(american))))

american_to_decimal(american) ==
    IF IsNa(american) THEN NaN
    ELSE IF Val(american) >= 100 THEN Num(10000 + 100 * Val(american))
    ELSE IF Val(american) <= 0 - 100
         THEN Num(10000 + RoundHalfEven(1000000, Abs(Val(american))))
    ELSE NaN

\* merged["odds_decimal"] = merged["odds_american"].apply(...); the
\* odds_american column is written too and never read by the scan
PinnacleTable(rows) ==
    [i \in 1..Len(rows) |->
        [full_name |-> rows[i].full_name, stat_name |-> rows[i].stat_name,
         stat_value |-> rows[i].stat_value, choice |-> rows[i].choice,
         odds_decimal |-> american_to_decimal(rows[i].odds_american)]]

\* all_rows after the loop over the subcategories
RECURSIVE AllRows(_)
AllRows(dk) ==
    IF dk = <<>> THEN <<>>
    ELSE AllRows(SubSeq(dk, 1, Len(dk) - 1))
         \o (IF dk[Len(dk)] = None THEN <<>> ELSE Val(dk[Len(dk)]))

WantsPinnacle(source) == source \in {"pinnacle", "both"}
WantsDraftKings(source) == source \in {"draftkings", "both"}

\* refresh_data leaves by an exception
RefreshRaises(source, fetch) ==
    \/ fetch.kalshi = None
    \/ WantsPinnacle(source) /\ fetch.pinn.kind = "raises"

\* the data files when refresh_data returns or raises
Refreshed(files, source, fetch) ==
    IF fetch.kalshi = None THEN files
    ELSE
      LET k == [files EXCEPT !.kalshi = fetch.kalshi]
      IN  IF WantsPinnacle(source) /\ fetch.pinn.kind = "raises" THEN k
          ELSE
            LET kp == IF WantsPinnacle(source) /\ fetch.pinn.kind = "rows"
                      THEN [k EXCEPT !.pinn = Some(PinnacleTable(fetch.pinn.rows))]
                      ELSE k
            IN  IF WantsDraftKings(source) /\ Len(AllRows(fetch.dk)) > 0
                THEN [kp EXCEPT !.dk = Some(AllRows(fetch.dk))]
                ELSE kp

----------------------------------------------------------------------------
(* cmd_auto, lines 386-409: refresh on request, scan, then the engine      *)

NoFetch == [kalshi |-> None, pinn |-> [kind |-> "nothing"], dk |-> <<>>]

AutoFrame == UNCHANGED <<ledger, pc, runNo, runParams, idx, traded_keys,
                         total_spend, total_fees, skipped, response, asked,
                         trace, ledger0, other, manual, fee, exchange>>

\* the process starts with its parsed arguments; fetch is what the outside
\* world will answer if it refreshes
AutoBegin(in) ==
    /\ pc = "idle"
    /\ auto.stage = "none"
    /\ auto' = [stage |-> "started", n |-> auto.n + 1, source |-> in.source,
                min_edge |-> in.min_edge, refresh |-> in.refresh,
                fetch |-> in.fetch, found |-> <<>>]
    /\ UNCHANGED csv
    /\ AutoFrame

\* if args.refresh: refresh_data(source=args.source)
Refresh ==
    /\ auto.stage = "started"
    /\ auto.refresh
    /\ csv' = Refreshed(csv, auto.source, auto.fetch)
    /\ auto' = [auto EXCEPT !.stage = IF RefreshRaises(auto.source, auto.fetch)
                                      THEN "raised" ELSE "fetched"]
    /\ AutoFrame

ScanDue == auto.stage = "fetched" \/ (auto.stage = "started" /\ ~auto.refresh)

\* edges_df = find_edges(KALSHI_CSV, args.min_edge, source=args.source)
Scan ==
    /\ ScanDue
    /\ Readable(csv, auto.source)
    /\ \E f \in find_edges(csv, auto.min_edge, auto.source) :
         auto' = [auto EXCEPT !.stage = "scanned", !.found = f]
    /\ UNCHANGED csv
    /\ AutoFrame

\* pd.read_csv raises FileNotFoundError
ScanRaises ==
    /\ ScanDue
    /\ ~Readable(csv, auto.source)
    /\ auto' = [auto EXCEPT !.stage = "raised"]
    /\ UNCHANGED csv
    /\ AutoFrame

\* if edges_df.empty: print("No edges found."); return
AutoNone ==
    /\ auto.stage = "scanned"
    /\ auto.found = <<>>
    /\ auto' = [stage |-> "none", n |-> auto.n]
    /\ UNCHANGED csv
    /\ AutoFrame

\* the traceback has been printed, the process is gone
AutoAbort ==
    /\ auto.stage = "raised"
    /\ auto' = [stage |-> "none", n |-> auto.n]
    /\ UNCHANGED csv
    /\ AutoFrame

\* execute_edge_trades(client, edges_df, args.count, ...): the engine takes over
AutoExecuteWith(params) ==
    /\ auto.stage = "scanned"
    /\ auto.found # <<>>
    /\ pc = "idle"
    /\ \E in \in params :
         Begin([edges |-> auto.found, count |-> in.count,
                max_contracts |-> in.max_contracts, max_spend |-> in.max_spend,
                dry_run |-> in.dry_run, skip_confirm |-> in.skip_confirm])
    /\ auto' = [stage |-> "none", n |-> auto.n]
    /\ UNCHANGED <<other, manual, csv, fee, exchange>>

----------------------------------------------------------------------------
(* Data the scan is run on *)

MaxMarkets == 2
MaxQuotes == 3

Title(player, threshold) == [kind |-> "prop", player |-> player, threshold |-> threshold]
OtherTitle == [kind |-> "other"]

KRow(id, title, series, yes_ask, no_ask) ==
    [ticker |-> <<"KXNBAPTS", id>>, title |-> title, series_ticker |-> series,
     yes_ask |-> yes_ask, no_ask |-> no_ask]

Quote(name, stat, line, choice, odds) ==
    [full_name |-> name, stat_name |-> stat, stat_value |-> line,
     choice |-> choice, odds_decimal |-> odds]

PQuote(name, stat, line, choice, american) ==
    [full_name |-> name, stat_name |-> stat, stat_value |-> line,
     choice |-> choice, odds_american |-> american]

\* "J. Doe: 35+ points" asked at 40 (yes) and 30 (no)
Doe35(id) == KRow(id, Title("J. Doe", 35), "KXNBAPTS", Num(40), Num(30))

\* exchange rows: two markets priced alike, a dearer one, unpriced ones,
\* a title and a series that do not parse, a series read off the ticker,
\* and the next threshold
MarketRows ==
    {Doe35("A"), Doe35("B"),
     KRow("C", Title("J. Doe", 35), "KXNBAPTS", Num(45), Num(65)),
     KRow("D", Title("J. Doe", 35), "KXNBAPTS", Num(0), Num(30)),
     KRow("E", Title("J. Doe", 35), "KXNBAPTS", Num(40), NaN),
     KRow("F", OtherTitle, "KXNBAPTS", Num(40), Num(30)),
     KRow("G", Title("J. Doe", 35), "KXMVE", Num(40), Num(30)),
     KRow("H", Title("J. Doe", 35), "", Num(40), Num(30)),
     KRow("I", Title("J. Doe", 36), "KXNBAPTS", Num(40), Num(30))}

\* 34.5, 35.5 and 33.5 in half points
Line345 == 69
Line355 == 71
Line335 == 67

\* a DraftKings table with both sides of J. Doe's points at 34.5 and at 35.5
DkBoard ==
    <<Quote("J. Doe", "Points", Line345, "over", Num(20000)),
      Quote("J. Doe", "Points", Line345, "under", Num(22000)),
      Quote("J. Doe", "Points", Line355, "over", Num(25000)),
      Quote("J. Doe", "Points", Line355, "under", Num(16000))>>

\* Pinnacle's merged rows: a pair at +100 / -120, and one with an Over price
\* american_to_decimal refuses
PinnPair ==
    <<PQuote("J. Doe", "Points", Line345, "over", Num(100)),
      PQuote("J. Doe", "Points", Line345, "under", Num(0 - 120))>>
PinnBadPair ==
    <<PQuote("J. Doe", "Points", Line345, "over", Num(50)),
      PQuote("J. Doe", "Points", Line345, "under", Num(0 - 120))>>

\* quotes of one line whose odds vary: valid, repeated at other odds, zero, empty
OddsRows ==
    {Quote("J. Doe", "Points", Line345, "over", Num(20000)),
     Quote("J. Doe", "Points", Line345, "under", Num(20000)),
     Quote("J. Doe", "Points", Line345, "under", Num(22000)),
     Quote("J. Doe", "Points", Line345, "over", Num(25000)),
     Quote("J. Doe", "Points", Line345, "over", Num(0)),
     Quote("J. Doe", "Points", Line345, "under", NaN)}

\* quotes that differ in what they are matched on: line, player, stat, case
MatchRows ==
    {Quote("J. Doe", "Points", Line345, "over", Num(20000)),
     Quote("J. Doe", "Points", Line345, "under", Num(22000)),
     Quote("J. Doe", "Points", Line355, "over", Num(25000)),
     Quote("J. Doe", "Points", Line335, "under", Num(16000)),
     Quote("j. doe", "points", Line345, "under", Num(16000)),
     Quote("A. Roe", "Points", Line345, "over", Num(25000)),
     Quote("J. Doe", "Rebounds", Line345, "under", Num(25000))}

Sources == {"draftkings", "pinnacle", "both"}

AllFetched(kalshi, dk, pinn) ==
    [kalshi |-> Some(kalshi), pinn |-> [kind |-> "rows", rows |-> pinn],
     dk |-> <<Some(dk)>>]

AutoInputsOf(tables, sources, min_edges) ==
    {[source |-> s, min_edge |-> m, refresh |-> TRUE, fetch |-> t] :
        s \in sources, m \in min_edges, t \in tables}

(* Scans whose exchange table varies *)
MarketInputs ==
    AutoInputsOf({AllFetched(k, DkBoard, PinnPair) :
                    k \in SeqsUpTo(MarketRows, MaxMarkets) \ {<<>>}},
                 Sources, {5, 13})

(* Scans whose DraftKings table varies *)
QuoteInputs ==
    AutoInputsOf({AllFetched(<<Doe35("A")>>, d, p) :
                    d \in SeqsUpTo(OddsRows, MaxQuotes) \cup SeqsUpTo(MatchRows, MaxQuotes),
                    p \in {PinnPair, PinnBadPair}},
                 Sources, {5, 20})

\* 19.5 in half points
Line195 == 39

(* The worked example: "J. Doe: 20+ points" asked at 40 (yes) and 65 (no), *)
(* DraftKings quoting Over 19.5 at 2.0 and Under 19.5 at 2.2, min_edge 5   *)
ExampleMarket == KRow("S", Title("J. Doe", 20), "KXNBAPTS", Num(40), Num(65))
ExampleFetch ==
    AllFetched(<<ExampleMarket>>,
               <<Quote("J. Doe", "Points", Line195, "over", Num(20000)),
                 Quote("J. Doe", "Points", Line195, "under", Num(22000))>>,
               <<>>)
ExampleInputs == AutoInputsOf({ExampleFetch}, {"draftkings"}, {5})

AutoInputs == MarketInputs \cup QuoteInputs \cup ExampleInputs

\* the arguments of the engine in these runs
AutoRunInputs ==
    [count : {1}, max_contracts : {1}, max_spend : {50, 5000},
     dry_run : BOOLEAN, skip_confirm : {TRUE}]

\* one cmd_auto invocation on a fresh checkout
AutoStart ==
    /\ auto.n = 0
    /\ \/ \E in \in AutoInputs : AutoBegin(in)
       \/ \E s \in Sources :
            AutoBegin([source |-> s, min_edge |-> 5, refresh |-> FALSE, fetch |-> NoFetch])

AutoExecute == AutoExecuteWith(AutoRunInputs)

NextAuto ==
    \/ AutoStart
    \/ Refresh
    \/ Scan
    \/ ScanRaises
    \/ AutoNone
    \/ AutoAbort
    \/ AutoExecute
    \/ SkipTraded
    \/ BudgetStop
    \/ DryRunOrder
    \/ PlaceOrder
    \/ PlaceOrderFails
    \/ Finish
    \/ Exit

SpecAuto == Init /\ [][NextAuto]_vars

----------------------------------------------------------------------------
(* Claims on the scan and on the auto pipeline *)

\* the scan's output before it is sorted, from the files the scan read
Built == Collected(Val(csv.kalshi), _load_book_df(csv, auto.source), auto.min_edge)

Scanned == auto.stage = "scanned"

\* C13: in a run that cmd_auto starts on the output of find_edges, the
\* edges are processed in list order and that order is descending in edge:
\* the orders follow each other with non-increasing edge values, and when an
\* order is made every edge with a strictly larger edge value has been
\* processed already.
C13_FundingOrder ==
    /\ \A i, j \in 1..Len(edges) : i < j => edges[i].edge >= edges[j].edge
    /\ \A i, j \in 1..Len(trace) :
         i < j /\ IsOrder(i) /\ IsOrder(j) => edges[i].edge >= edges[j].edge
    /\ \A i \in 1..Len(trace) : \A k \in 1..Len(edges) :
         IsOrder(i) /\ edges[k].edge > edges[i].edge => k < i /\ Done(k)

\* both sides of one market were bought, the "no" side, found second and
\* worth more, first
C13_Witness ==
    /\ Len(trace) = 2
    /\ trace[1].outcome = "placed"
    /\ trace[2].outcome = "placed"
    /\ edges[1].ticker = edges[2].ticker
    /\ edges[1].side = "no"
    /\ edges[2].side = "yes"
    /\ edges[1].edge > edges[2].edge

\* the one descending arrangement that keeps equal edges in their order
StableOrder(s) ==
    LET p == CHOOSE p \in Permutations(1..Len(s)) :
                 \A i, j \in 1..Len(s) :
                     i < j => \/ s[p[i]].edge > s[p[j]].edge
                              \/ s[p[i]].edge = s[p[j]].edge /\ p[i] < p[j]
    IN  [i \in 1..Len(s) |-> s[p[i]]]

\* C14: the list find_edges returns is in descending order of edge, and
\* edges of equal value are in the order in which the scan produced them.
C14_RankingStable == Scanned => auto.found = StableOrder(Built)

\* the exchange rows and the book tables the scan read
KalshiRows == Val(csv.kalshi)
Books == _load_book_df(csv, auto.source)

Priced(row) ==
    /\ ~IsNa(row.yes_ask)
    /\ ~IsNa(row.no_ask)
    /\ Val(row.yes_ask) # 0
    /\ Val(row.no_ask) # 0

Parses(row) ==
    /\ row.title.kind = "prop"
    /\ SERIES_TO_STAT(IF row.series_ticker = "" THEN row.ticker[1]
                      ELSE row.series_ticker) # None
    /\ Priced(row)

\* what book i says of the market of a row that parses: None or the dict
ImpliedBy(row, i) ==
    _compute_vig_free_implied(Matches(Val(_parse_kalshi_market(row)), Books[i][2]))

\* the books that quote a side of the market of a row
Quoting(row, choice) ==
    {i \in 1..Len(Books) :
        ImpliedBy(row, i) # None /\ choice \in DOMAIN Val(ImpliedBy(row, i))}

AskOf(row, choice) == IF choice = "over" THEN Val(row.yes_ask) ELSE Val(row.no_ask)

\* round(avg_implied - ask, 1) of a side that is quoted, in tenths
RoundedEdge(row, choice) ==
    LET q == Quoting(row, choice)
        total == FSum([i \in q |-> Val(ImpliedBy(row, i))[choice]], q)
    IN  Round1(FSub(FDiv(total, FInt(Cardinality(q))), FInt(AskOf(row, choice))))

Qualifies(row, choice) ==
    /\ Parses(row)
    /\ Quoting(row, choice) # {}
    /\ RoundedEdge(row, choice) >= 10 * auto.min_edge

ChoiceSet == {"over", "under"}
FoundFor(row, choice) ==
    {i \in 1..Len(auto.found) :
        auto.found[i].ticker = row.ticker /\ auto.found[i].choice = choice}

NearHundred(x) == 100 * Abs(x[1] - 100 * x[2]) <= x[2]

\* C16: whatever rows of a source match a market, one or several per side,
\* _compute_vig_free_implied returns nothing or a dict whose keys are
\* exactly "over" and "under" and whose two values add up to 100.
C16_VigFreeSum ==
    Scanned =>
      \A k \in 1..Len(KalshiRows) : \A i \in 1..Len(Books) :
        Parses(KalshiRows[k]) /\ ImpliedBy(KalshiRows[k], i) # None =>
          LET implied == Val(ImpliedBy(KalshiRows[k], i))
          IN  /\ DOMAIN implied = {"over", "under"}
              /\ NearHundred(FAdd(implied["over"], implied["under"]))

\* the first Over and the first Under row book i has for the market of a
\* row, both there and both with odds that are a positive number
PairValid(row, i) ==
    LET m == Matches(Val(_parse_kalshi_market(row)), Books[i][2])
        o == RowsOf(m, "over")
        u == RowsOf(m, "under")
    IN  /\ o # <<>>
        /\ u # <<>>
        /\ ~IsNa(o[1].odds_decimal)
        /\ ~IsNa(u[1].odds_decimal)
        /\ Val(o[1].odds_decimal) > 0
        /\ Val(u[1].odds_decimal) > 0

\* American odds american_to_decimal has no decimal for
Refused(american) ==
    IsNa(american) \/ (Val(american) > 0 - 100 /\ Val(american) < 100)

\* the Pinnacle file is the one this invocation's refresh wrote
PinnacleWritten ==
    /\ auto.refresh
    /\ WantsPinnacle(auto.source)
    /\ auto.fetch.pinn.kind = "rows"

ExactRows(row, i) ==
    SelectSeq(Books[i][2], LAMBDA r :
        /\ Lower(r.full_name) = Lower(row.title.player)
        /\ Lower(r.stat_name) = Lower(Val(_parse_kalshi_market(row)).stat)
        /\ r.stat_value + 1 = 2 * row.title.threshold)

ExactQuoting(row, choice) ==
    {i \in 1..Len(Books) :
        /\ _compute_vig_free_implied(ExactRows(row, i)) # None
        /\ choice \in DOMAIN Val(_compute_vig_free_implied(ExactRows(row, i)))}

ExactEdge(row, choice) ==
    LET q == ExactQuoting(row, choice)
        total == FSum([i \in q |-> Val(_compute_vig_free_implied(ExactRows(row, i)))[choice]], q)
    IN  Round1(FSub(FDiv(total, FInt(Cardinality(q))), FInt(AskOf(row, choice))))

\* C18: the edges of a market with threshold N come from the sportsbook
\* rows whose stat_value is exactly N - 0.5, for the same player and stat
\* compared in lower case, and from no row of another line.
C18_ThresholdReconciliation ==
    Scanned =>
      \A k \in 1..Len(KalshiRows) : \A c \in ChoiceSet :
        Parses(KalshiRows[k]) =>
          /\ FoundFor(KalshiRows[k], c) # {}
               <=> /\ ExactQuoting(KalshiRows[k], c) # {}
                   /\ ExactEdge(KalshiRows[k], c) >= 10 * auto.min_edge
          /\ \A i \in FoundFor(KalshiRows[k], c) :
               auto.found[i].edge = ExactEdge(KalshiRows[k], c)

\* a 35+ market took its edge from the 34.5 pair of a table that also has
\* a 35.5 pair, and a 36+ market took its from the 35.5 pair
C18_Witness ==
    /\ Scanned
    /\ auto.source = "draftkings"
    /\ Val(csv.dk) = DkBoard
    /\ \E i, j \in 1..Len(auto.found) :
         /\ auto.found[i].threshold = 35
         /\ auto.found[i].choice = "over"
         /\ auto.found[i].edge = 124
         /\ auto.found[j].threshold = 36
         /\ auto.found[j].choice = "under"
         /\ auto.found[j].edge = 310

\* C19: a market whose yes_ask or no_ask is zero or empty has no edge on
\* either side; every edge find_edges returns has a non-zero kalshi_price,
\* and so has every edge the engine, started on that list, works on (the
\* divisor of remaining // price).
C19_UnpriceableExcluded ==
    /\ Scanned =>
         /\ \A k \in 1..Len(KalshiRows) :
              ~Priced(KalshiRows[k]) =>
                \A i \in 1..Len(auto.found) : auto.found[i].ticker # KalshiRows[k].ticker
         /\ \A i \in 1..Len(auto.found) : auto.found[i].kalshi_price # 0
    /\ \A i \in 1..Len(edges) : edges[i].kalshi_price # 0

\* the scan read a market without a price next to one with edges, and the
\* run on those edges did the division and stopped on the budget
C19_Witness ==
    /\ csv.kalshi # None
    /\ \E k \in 1..Len(KalshiRows) :
         /\ KalshiRows[k].title.kind = "prop"
         /\ ~Priced(KalshiRows[k])
    /\ LastOutcome = "stopped"

----------------------------------------------------------------------------
(* cmd_auto invoked repeatedly, with fetches that fail *)

MaxAutos == 2

\* what DraftKings answers for the Points and for the Rebounds subcategory
PointsFetches ==
    {None,
     Some(<<Quote("J. Doe", "Points", Line345, "over", Num(20000)),
            Quote("J. Doe", "Points", Line345, "under", Num(22000))>>),
     Some(<<Quote("J. Doe", "Points", Line345, "over", Num(25000)),
            Quote("J. Doe", "Points", Line345, "under", Num(16000))>>)}
ReboundsFetches ==
    {None, Some(<<>>),
     Some(<<Quote("J. Doe", "Rebounds", Line345, "over", Num(20000))>>)}

SmallFetches ==
    [kalshi : {None, Some(<<Doe35("A")>>)},
     pinn : {[kind |-> "raises"], [kind |-> "nothing"],
             [kind |-> "rows", rows |-> PinnPair]},
     dk : {<<p, r>> : p \in PointsFetches, r \in ReboundsFetches}]

RefreshInputs ==
    AutoInputsOf(SmallFetches, Sources, {5})
    \cup {[source |-> s, min_edge |-> 5, refresh |-> FALSE, fetch |-> NoFetch] : s \in Sources}

AutoStartAgain ==
    /\ auto.n < MaxAutos
    /\ \E in \in RefreshInputs : AutoBegin(in)

AutoExecuteLive ==
    AutoExecuteWith([count : {1}, max_contracts : {1}, max_spend : {5000},
                     dry_run : {FALSE}, skip_confirm : {TRUE}])

NextRefresh ==
    \/ AutoStartAgain
    \/ Refresh
    \/ Scan
    \/ ScanRaises
    \/ AutoNone
    \/ AutoAbort
    \/ AutoExecuteLive
    \/ SkipTraded
    \/ PlaceOrder
    \/ Finish
    \/ Exit

SpecRefresh == Init /\ [][NextRefresh]_vars

Refreshing == auto.refresh /\ auto.fetch.kalshi # None

\* this invocation's fetch of a source failed, and only that one
PinnacleFailed ==
    /\ Refreshing
    /\ WantsPinnacle(auto.source)
    /\ auto.fetch.pinn.kind = "raises"
DraftKingsFailed ==
    /\ Refreshing
    /\ WantsDraftKings(auto.source)
    /\ \A i \in 1..Len(auto.fetch.dk) : auto.fetch.dk[i] = None
OnlyFailed(label) ==
    IF label = "pinn" THEN PinnacleFailed /\ ~DraftKingsFailed
    ELSE DraftKingsFailed /\ ~PinnacleFailed

\* the files with the table of a source emptied
Without(files, label) ==
    IF label = "pinn" THEN [files EXCEPT !.pinn = Some(<<>>)]
    ELSE [files EXCEPT !.dk = Some(<<>>)]

\* C20: when the fetch of one sportsbook source fails in an auto run with
\* refresh, the run does not end in an exception: the scan is made, and
\* its result is what the other data gives without that source.
C20_SourceFailureTolerated ==
    \A label \in {"dk", "pinn"} :
      auto.stage \in {"raised", "scanned"} /\ OnlyFailed(label) =>
        /\ auto.stage = "scanned"
        /\ auto.found \in find_edges(Without(csv, label), auto.min_edge, auto.source)

----------------------------------------------------------------------------
(* The table of a source against the fetch that should have produced it    *)

\* every subcategory of this invocation's DraftKings fetch answered
DraftKingsComplete == \A i \in 1..Len(auto.fetch.dk) : auto.fetch.dk[i] # None

\* what a complete Pinnacle fetch found, as the table it makes
PinnacleFound ==
    IF auto.fetch.pinn.kind = "rows" THEN PinnacleTable(auto.fetch.pinn.rows) ELSE <<>>

\* C21: the sportsbook tables a scan reads after a refresh are each the
\* complete result of that refresh's fetch of the source: no subcategory
\* failed and left a table without its rows, and no table of an earlier
\* fetch is read in place of what this fetch returned.
C21_ConsistentSnapshot ==
    Scanned /\ Refreshing =>
      /\ WantsDraftKings(auto.source) =>
           /\ DraftKingsComplete
           /\ csv.dk = Some(AllRows(auto.fetch.dk))
      /\ WantsPinnacle(auto.source) =>
           /\ auto.fetch.pinn.kind # "raises"
           /\ csv.pinn = Some(PinnacleFound)

----------------------------------------------------------------------------
(* The ledger file over sequential runs                                    *)

\* the rows log_trade was called with among the first n edges of the run
RECURSIVE LoggedRows(_)
LoggedRows(n) ==
    IF n = 0 THEN <<>>
    ELSE LoggedRows(n - 1)
         \o (IF trace[n].outcome = "placed"
             THEN <<[kind |-> "row", ticker |-> edges[n].ticker, action |-> "buy",
                     side |-> SideValue(edges[n].side)]>>
             ELSE <<>>)

WellFormedLedger ==
    ledger = <<>> \/
      /\ Len(ledger) >= 2
      /\ ledger[1] = HeaderRow
      /\ \A i \in 2..Len(ledger) : ledger[i].kind = "row"

\* C22: over any number of sequential runs the ledger file is absent or is
\* one header row followed by data rows only; while a run lasts the data
\* rows are those it found on entry followed by one row per log_trade call
\* of the run, in call order; a step that changes the file creates it as header plus one
\* row when it was absent and otherwise appends one data row, so no row
\* already in the file is removed or rewritten.
C22_LedgerAppendOnly ==
    /\ [](WellFormedLedger)
    /\ [](pc # "idle" =>
            DataRows(ledger) = DataRows(ledger0) \o LoggedRows(Len(trace)))
    /\ [][ledger' # ledger =>
            /\ Len(ledger') = Len(ledger) + (IF ledger = <<>> THEN 2 ELSE 1)
            /\ ledger = <<>> => ledger'[1] = HeaderRow
            /\ \A i \in 1..Len(ledger) : ledger'[i] = ledger[i]
            /\ ledger'[Len(ledger')].kind = "row"]_vars

\* a second run has appended a row to the file the first run created
C22_Witness ==
    /\ runNo = 2
    /\ ledger0 # <<>>
    /\ Len(ledger) > Len(ledger0)
    /\ LastOutcome = "placed"

----------------------------------------------------------------------------
(* The same run under two fee coefficients                                 *)
(*                                                                         *)
(* Two processes are started on the same edge list, the same arguments and *)
(* the same ledger, one with TAKER_FEE_COEFF as it is and one with another *)
(* coefficient. Each runs the engine's own steps; what the user answers    *)
(* and whether the exchange accepts an order is free in both.              *)

BigFee == 1000000
FeeCoefficients == {0, BigFee}

FeeInputs ==
    Inputs(SeqsUpTo(EdgesOver(OneMarket, {1}), MaxEdges),
           {1, MaxCount}, {MaxCount}, {1, MaxSpend}, BOOLEAN, BOOLEAN)

StartTwins ==
    /\ pc = "idle"
    /\ other.pc = "idle"
    /\ runNo < MaxRuns
    /\ \E in \in FeeInputs : Begin(in)
    /\ fee' = TakerFeePercent
    /\ \E f \in FeeCoefficients : other' = [Locals' EXCEPT !.fee = f]
    /\ UNCHANGED <<manual, csv, auto, exchange>>

\* both processes are gone
ExitTwins ==
    /\ pc \in {"done", "raised"}
    /\ other.pc \in {"done", "raised"}
    /\ pc' = "idle"
    /\ edges' = <<>>
    /\ idx' = 1
    /\ count' = 1
    /\ max_contracts' = 1
    /\ max_spend' = 0
    /\ dry_run' = FALSE
    /\ skip_confirm' = FALSE
    /\ traded_keys' = {}
    /\ total_spend' = 0
    /\ total_fees' = 0
    /\ skipped' = 0
    /\ response' = NoResponse
    /\ asked' = 0
    /\ trace' = <<>>
    /\ ledger0' = <<>>
    /\ fee' = TakerFeePercent
    /\ other' = NoRun
    /\ UNCHANGED <<ledger, runNo, manual, csv, auto, exchange>>

NextFees ==
    \/ StartTwins
    \/ Switch
    \/ SkipTraded
    \/ BudgetStop
    \/ Decline
    \/ DryRunOrder
    \/ PlaceOrder
    \/ PlaceOrderFails
    \/ Finish
    \/ ExitTwins

SpecFees == Init /\ [][NextFees]_vars

\* outcomes that the user's answer or the exchange's answer decides
External == {"placed", "failed", "declined"}

\* two processed edges that differ at most by what the user or the exchange
\* answered
Compatible(x, y) ==
    \/ x = y
    \/ /\ x.outcome \in External
       /\ y.outcome \in External
       /\ x.outcome # y.outcome
       /\ ({x.outcome, y.outcome} = {"placed", "failed"} => x.count = y.count)

FeeBlind(a, b) ==
    /\ \A i \in 1..Min(Len(a.trace), Len(b.trace)) :
         (\A j \in 1..(i - 1) : a.trace[j] = b.trace[j])
            => Compatible(a.trace[i], b.trace[i])
    /\ a.trace = b.trace =>
         /\ a.total_spend = b.total_spend
         /\ a.skipped = b.skipped
         /\ a.traded_keys = b.traded_keys
         /\ a.idx = b.idx
         /\ (a.pc # "loop" /\ b.pc # "loop" => a.pc = b.pc)

Twins == pc # "idle" /\ other.pc # "idle"

\* C23: two runs on the same edge list, ledger and guardrail settings that
\* differ in the fee coefficient process their edges alike: up to the first
\* edge where the user or the exchange answered them differently, each edge
\* has the same outcome (skipped, stopped, declined, dry, placed, failed)
\* and the same order count, and runs with the same outcomes have the same
\* total_spend, skipped count, traded keys, position and way of ending.
C23_FeesNeverGate == Twins => FeeBlind(Locals, other)

\* both runs have ended after the same outcomes, an order among them, with
\* different fee totals
C23_Witness ==
    /\ Twins
    /\ pc = "done"
    /\ other.pc = "done"
    /\ trace = other.trace
    /\ \E i \in 1..Len(trace) : trace[i].outcome = "placed"
    /\ Len(trace) = MaxEdges
    /\ total_fees # other.total_fees

----------------------------------------------------------------------------
(* What the run reports when it ends                                       *)

\* edges of the run for which an order was placed (printed by place_trade)
OrdersPlaced == Cardinality({i \in 1..Len(trace) : IsOrder(i)})

\* C24: when a run has printed its totals, the orders placed plus the edges
\* it reports as skipped (the skipped count of line 303) are as many as the
\* edges of the list.
C24_EveryEdgeAccounted ==
    pc = "done" => OrdersPlaced + skipped = Len(edges)

----------------------------------------------------------------------------
(* The worked example                                                      *)

ExampleScan ==
    /\ Scanned
    /\ auto.refresh
    /\ auto.fetch = ExampleFetch
    /\ auto.source = "draftkings"
    /\ auto.min_edge = 5

\* C25: the scan of the example (one market "J. Doe: 20+ points" asked at
\* 40 and 65, one sportsbook at Over 19.5 / 2.0 and Under 19.5 / 2.2,
\* min_edge 5) returns exactly one edge: side yes, kalshi_price 40, edge
\* 12.4; the vig-free probabilities it is computed from round to 52.4
\* (over) and 47.6 (under), and no edge is returned for the Under side.
C25_WorkedExample ==
    ExampleScan =>
      /\ Len(auto.found) = 1
      /\ auto.found[1].ticker = ExampleMarket.ticker
      /\ auto.found[1].side = "yes"
      /\ auto.found[1].kalshi_price = 40
      /\ auto.found[1].edge = 124
      /\ Round1(Val(ImpliedBy(ExampleMarket, 1))["over"]) = 524
      /\ Round1(Val(ImpliedBy(ExampleMarket, 1))["under"]) = 476
      /\ FoundFor(ExampleMarket, "under") = {}

\* the example has been scanned and has given its edge
C25_Witness ==
    /\ ExampleScan
    /\ csv.dk = Some(Val(ExampleFetch.dk[1]))
    /\ auto.found # <<>>
    /\ auto.found[1].edge = 124

----------------------------------------------------------------------------
(* Interrupted between place_order and log_trade                           *)
(*                                                                         *)
(* Lines 294-300 are several steps: the exchange accepts the order when    *)
(* client.place_order returns, and the ledger row is written afterwards by *)
(* log_trade. Between the two the process can be stopped (a signal, the    *)
(* machine going down) or log_trade can raise (the file cannot be          *)
(* written); nothing catches either. pc = "accepted" is that point.        *)

CrashInputs ==
    Inputs(SeqsUpTo(EdgesOver(Markets, {1}), MaxEdges),
           {1}, {1}, {1, MaxSpend}, {FALSE}, {TRUE})

StartCrashRun ==
    /\ pc = "idle"
    /\ runNo < MaxRuns
    /\ \E in \in CrashInputs : Begin(in)
    /\ UNCHANGED <<others, exchange>>

BuyKey == <<"buy", edge.ticker, SideValue(edge.side)>>

\* line 294: place_trade returns the order the exchange accepted
OrderAccepted ==
    /\ Affordable
    /\ ~dry_run
    /\ Prompt({r \in Responses : Affirmative(r)})
    /\ pc' = "accepted"
    /\ exchange' = exchange \cup {BuyKey}
    /\ UNCHANGED <<ledger, runNo, runParams, idx, traded_keys, total_spend,
                   total_fees, skipped, trace, ledger0>>
    /\ UNCHANGED others

\* lines 295-300: the totals, log_trade and traded_keys.add
OrderLogged ==
    /\ pc = "accepted"
    /\ pc' = "loop"
    /\ Processed("placed", order_count)
    /\ total_spend' = total_spend + price * order_count
    /\ total_fees' = total_fees + estimate_fee(price, order_count)
    /\ ledger' = log_trade(ledger, edge.ticker, SideValue(edge.side), order_count, price)
    /\ traded_keys' = traded_keys \cup {Key(edge)}
    /\ idx' = idx + 1
    /\ NoPrompt
    /\ UNCHANGED <<runNo, runParams, skipped, ledger0>>
    /\ UNCHANGED <<others, exchange>>

\* the process is stopped, or log_trade raises, before the row is written
Interrupted ==
    /\ pc = "accepted"
    /\ pc' = "raised"
    /\ Processed("interrupted", order_count)
    /\ NoPrompt
    /\ UNCHANGED <<ledger, runNo, runParams, idx, traded_keys, total_spend,
                   total_fees, skipped, ledger0>>
    /\ UNCHANGED <<others, exchange>>

NextCrash ==
    \/ StartCrashRun
    \/ SkipTraded
    \/ BudgetStop
    \/ OrderAccepted
    \/ OrderLogged
    \/ Interrupted
    \/ PlaceOrderFails
    \/ Finish
    \/ Exit

SpecCrash == Init /\ [][NextCrash]_vars

\* the (ticker, side) keys of the BUY orders the exchange has accepted
AcceptedKeys == {<<k[2], k[3]>> : k \in {k \in exchange : k[1] = "buy"}}

\* C26: no order is submitted for a (ticker, side) the exchange has already
\* accepted an order for, in the same run or a later one, and when a run
\* has ended, however it ended, every accepted order's key is in the
\* ledger.
C26_NoReentry ==
    /\ [][pc = "loop" /\ pc' = "accepted" => BuyKey \notin exchange]_vars
    /\ [](pc \in {"done", "raised"} => AcceptedKeys \subseteq RowKeys(ledger))

----------------------------------------------------------------------------
(* Any integer the command line accepts                                    *)
(*                                                                         *)
(* --count, --max-contracts and --max-spend are declared type=int and are  *)
(* passed on as parsed: zero and negative values reach the engine.         *)

AnyCountInputs ==
    Inputs(SeqsUpTo(EdgesOver(OneMarket, {1}), MaxEdges),
           (0 - 1)..1, (0 - 1)..1, {0 - 1, 0, MaxSpend}, BOOLEAN, {TRUE})

StartAnyCount ==
    /\ pc = "idle"
    /\ runNo < MaxRuns
    /\ \E in \in AnyCountInputs : Begin(in)
    /\ UNCHANGED <<others, exchange>>

NextAnyCount ==
    \/ StartAnyCount
    \/ SkipTraded
    \/ BudgetStop
    \/ DryRunOrder
    \/ PlaceOrder
    \/ PlaceOrderFails
    \/ Finish
    \/ Exit

SpecAnyCount == Init /\ [][NextAnyCount]_vars

\* C27: whatever integers were given for the count, max_contracts and
\* max_spend, every order a run submits to the exchange is for at least
\* one contract.
C27_OrderCountPositive ==
    \A i \in 1..Len(trace) : IsSubmitted(i) => trace[i].count >= 1

----------------------------------------------------------------------------
(* Dry run                                                                 *)

\* the count a live run would order at edge i, given what was spent before it
CountAt(i) ==
    LET full == RequestedCount(count, max_contracts)
    IN  IF OverBudget(SpentBefore(i), PriceAt(i) * full, max_spend)
        THEN ClampedCount(max_spend - SpentBefore(i), PriceAt(i))
        ELSE full

DryRunning == dry_run /\ pc # "idle"

\* C28: in a dry run no order is submitted to the exchange, input() is never
\* called, the ledger stays what it was when the run began and traded_keys
\* stays what was loaded from it; total_spend is the cost of the orders
\* that would have been placed, each for the count the clamp gives on that
\* total, and the run stops at the first edge whose clamped count is not
\* positive.
C28_DryRunFrame ==
    /\ [](DryRunning =>
            /\ ledger = ledger0
            /\ traded_keys = load_traded_keys(ledger0)
            /\ asked = 0
            /\ response = NoResponse
            /\ total_spend = SpentBefore(Len(trace) + 1)
            /\ \A i \in 1..Len(trace) :
                 /\ trace[i].outcome \in {"skipped", "dry", "stopped"}
                 /\ trace[i].outcome = "dry" => trace[i].count = CountAt(i)
                 /\ trace[i].outcome = "stopped" => CountAt(i) <= 0
                 /\ trace[i].outcome = "skipped" => LoggedByFirst(i))
    /\ [][DryRunning => exchange' = exchange /\ ledger' = ledger]_vars

\* a dry run clamped an order to the budget and stopped at the next edge,
\* on a ledger an earlier run had written
C28_Witness ==
    /\ DryRunning
    /\ pc = "done"
    /\ ledger0 # <<>>
    /\ Len(trace) = 2
    /\ trace[1].outcome = "dry"
    /\ trace[1].count < RequestedCount(count, max_contracts)
    /\ trace[2].outcome = "stopped"
    /\ total_spend > 0

----------------------------------------------------------------------------
(* cmd_manual and auto runs on one checkout, one after the other           *)

AfterManualInputs ==
    Inputs(SeqsUpTo(EdgesOver(OneMarket, {1}), MaxEdges),
           {1}, {1}, {MaxSpend}, {FALSE}, {TRUE})

StartAfterManual ==
    /\ pc = "idle"
    /\ manual.stage = "none"
    /\ runNo < MaxRuns
    /\ \E in \in AfterManualInputs : Begin(in)
    /\ UNCHANGED <<others, exchange>>

NextManualAuto ==
    \/ ManualStart
    \/ ManualReject
    \/ ManualCancel
    \/ ManualDryRun
    \/ ManualOrder
    \/ ManualOrderFails
    \/ ManualExit
    \/ StartAfterManual
    \/ SkipTraded
    \/ PlaceOrder
    \/ PlaceOrderFails
    \/ Finish
    \/ Exit

SpecManualAuto == Init /\ [][NextManualAuto]_vars

\* keys the exchange accepted a BUY for that only cmd_manual can have sent
ManualOnlyKeys == AcceptedKeys \ RowKeys(ledger)

\* C29: no step of cmd_manual changes the ledger, whatever its outcome; an
\* auto run loads as traded only the keys of the ledger's rows, so it skips
\* no edge for a key that only cmd_manual bought; and how cmd_manual ends
\* (rejected, cancelled, dry, order submitted) follows from its arguments
\* and the answer to its prompt alone, whatever the ledger holds.
C29_ManualLeavesLedger ==
    /\ [][manual' # manual => ledger' = ledger]_vars
    /\ [](pc # "idle" =>
            /\ traded_keys \cap ManualOnlyKeys = {}
            /\ \A i \in 1..Len(trace) :
                 trace[i].outcome = "skipped" => KeyAt(i) \in RowKeys(ledger))
    /\ [](manual.stage = "exited" =>
            IF ManualRejected
            THEN manual.submitted = <<>> /\ manual.exit = 1
            ELSE IF manual.dry_run \/ (ManualAsks /\ ~Affirmative(manual.answer))
            THEN manual.submitted = <<>> /\ manual.exit = 0
            ELSE manual.submitted # <<>>)

\* an auto run is about to order a key that cmd_manual has bought
C29_Witness ==
    /\ AtEdge
    /\ Affordable
    /\ Key(edge) \in ManualOnlyKeys
    /\ Key(edge) \notin traded_keys
    /\ ledger # <<>>

----------------------------------------------------------------------------
(* The first find_edges, src/trade.py lines 89-187: DraftKings only        *)

\* edge >= min_edge on the difference as computed, before any rounding
AtLeast(x, min_edge) == x[1] >= min_edge * x[2]

\* lines 154-172: the edge of one matched row, <<>> when it falls short
LegacyEdge(row, r, overround, min_edge) ==
    LET implied == Normalized(Val(r.odds_decimal), overround)
        ask == IF r.choice = "over" THEN Val(row.yes_ask) ELSE Val(row.no_ask)
        edge_val == FSub(implied, FInt(ask))
    IN  IF r.choice \notin {"over", "under"} \/ ~AtLeast(edge_val, min_edge) THEN <<>>
        ELSE <<[ticker |-> row.ticker,
                side |-> IF r.choice = "over" THEN "yes" ELSE "no",
                kalshi_price |-> ask,
                edge |-> Round1(edge_val)]>>

\* lines 133-172: the loop over the matched rows, in table order
RECURSIVE LegacyLoop(_, _, _, _)
LegacyLoop(row, matches, overround, min_edge) ==
    IF matches = <<>> THEN <<>>
    ELSE LegacyLoop(row, SubSeq(matches, 1, Len(matches) - 1), overround, min_edge)
         \o (IF ValidOdds(matches[Len(matches)].odds_decimal)
             THEN LegacyEdge(row, matches[Len(matches)], overround, min_edge)
             ELSE <<>>)

\* lines 99-172: the body of the loop over the exchange rows
LegacyRowEdges(row, dk_df, min_edge) ==
    LET parsed == parse_kalshi_title(row.title)
        series == IF row.series_ticker = "" THEN row.ticker[1] ELSE row.series_ticker
        stat_name == SERIES_TO_STAT(series)
    IN  IF parsed.player = None THEN <<>>
        ELSE IF stat_name = None THEN <<>>
        ELSE IF IsNa(row.yes_ask) \/ IsNa(row.no_ask)
                \/ Val(row.yes_ask) = 0 \/ Val(row.no_ask) = 0
        THEN <<>>
        ELSE
          LET dk_threshold == 2 * Val(parsed.threshold) - 1
              matches == SelectSeq(dk_df, LAMBDA r :
                           /\ Lower(r.full_name) = Lower(Val(parsed.player))
                           /\ Lower(r.stat_name) = Lower(Val(stat_name))
                           /\ r.stat_value = dk_threshold)
              over_row == RowsOf(matches, "over")
              under_row == RowsOf(matches, "under")
          IN  IF over_row = <<>> \/ under_row = <<>> THEN <<>>
              ELSE IF ~ValidOdds(over_row[1].odds_decimal)
                      \/ ~ValidOdds(under_row[1].odds_decimal)
              THEN <<>>
              ELSE LegacyLoop(row, matches,
                              FAdd(FDiv(FInt(1), FInt(Val(over_row[1].odds_decimal))),
                                   FDiv(FInt(1), FInt(Val(under_row[1].odds_decimal)))),
                              min_edge)

RECURSIVE LegacyCollected(_, _, _)
LegacyCollected(kalshi_df, dk_df, min_edge) ==
    IF kalshi_df = <<>> THEN <<>>
    ELSE LegacyCollected(SubSeq(kalshi_df, 1, Len(kalshi_df) - 1), dk_df, min_edge)
         \o LegacyRowEdges(kalshi_df[Len(kalshi_df)], dk_df, min_edge)

\* src/trade.py find_edges(kalshi_csv, draftkings_csv, min_edge)
find_edges_legacy(files, min_edge) ==
    sort_values(LegacyCollected(Val(files.kalshi), Val(files.dk), min_edge))

\* the columns the two scanners are compared on
Record4(e) ==
    [ticker |-> e.ticker, side |-> e.side, kalshi_price |-> e.kalshi_price,
     edge |-> e.edge]
Records4(s) == [i \in 1..Len(s) |-> Record4(s[i])]

\* an edge a quarter of a tenth short of min_edge 5: Over 34.5 at 2.202 and
\* Under 34.5 at 1.8 give P(over) = 44.9775, 4.9775 above the ask of 40
NearMissBoard ==
    <<Quote("J. Doe", "Points", Line345, "over", Num(22020)),
      Quote("J. Doe", "Points", Line345, "under", Num(18000))>>

(* both scanners on the same files *)
LegacyInputs ==
    {in \in AutoInputs : in.source = "draftkings"}
    \cup AutoInputsOf({AllFetched(<<Doe35("A")>>, NearMissBoard, <<>>)}, {"draftkings"}, {5})

LegacyStart ==
    /\ auto.n = 0
    /\ \E in \in LegacyInputs : AutoBegin(in)

ScanBoth ==
    /\ ScanDue
    /\ Readable(csv, auto.source)
    /\ \E f \in find_edges(csv, auto.min_edge, auto.source),
          g \in find_edges_legacy(csv, auto.min_edge) :
         auto' = [stage |-> "compared", n |-> auto.n, source |-> auto.source,
                  min_edge |-> auto.min_edge, refresh |-> auto.refresh,
                  fetch |-> auto.fetch, found |-> f, legacy |-> g]
    /\ UNCHANGED csv
    /\ AutoFrame

Compared == auto.stage = "compared"

\* the comparison is over
CompareDone ==
    /\ Compared
    /\ auto' = [stage |-> "none", n |-> auto.n]
    /\ UNCHANGED csv
    /\ AutoFrame

NextLegacy ==
    \/ LegacyStart
    \/ Refresh
    \/ ScanBoth
    \/ CompareDone

SpecLegacy == Init /\ [][NextLegacy]_vars

\* at most one over and one under row per player, stat and line
OnePerSide(df) ==
    \A i, j \in 1..Len(df) :
      (/\ i # j
       /\ Lower(df[i].full_name) = Lower(df[j].full_name)
       /\ Lower(df[i].stat_name) = Lower(df[j].stat_name)
       /\ df[i].stat_value = df[j].stat_value) => df[i].choice # df[j].choice

\* C30: on the same exchange table, the same DraftKings table with at most
\* one over and one under row per player, stat and line, and the same
\* min_edge, what the first find_edges can return and what the present one
\* can return with source draftkings are the same lists of (ticker, side,
\* kalshi_price, edge).
C30_ScannersAgree ==
    Compared /\ OnePerSide(Val(csv.dk)) =>
      {Records4(f) : f \in find_edges(csv, auto.min_edge, "draftkings")}
        = {Records4(g) : g \in find_edges_legacy(csv, auto.min_edge)}

====
